---- MODULE Spec2Model ----
(***************************************************************************)
(* A model of the Cordle game engine (townService/src/town/games/          *)
(* CordleGame.ts): one CordleGame instance, its join / leave / startGame / *)
(* setDifficultyLevel / applyMove operations and the letter-scoring        *)
(* algorithm of _applyGuess.                                               *)
(*                                                                         *)
(* Words are sequences of one-character strings.  JavaScript's undefined   *)
(* is the string Undefined for scalar fields and the sequence NoWord for   *)
(* the secret word.                                                        *)
(***************************************************************************)
EXTENDS Integers, Sequences, FiniteSets, TLC

\* ------------------------------------------------------------------ values

Undefined == "undefined"

\* state.cordle before any word was drawn (cordle: undefined)
NoWord == <<Undefined>>

\* The player ids that call the instance.
Players == {"p1", "p2", "p3"}

\* CordleDifficulty
Difficulties == {"Easy", "Medium", "Hard"}

\* The number of guesses after which an undecided game is a draw.
CORDLE_NUMBER_GUESSES == 6

\* Bound: no guess is submitted once this many are stored.
MaxGuesses == 7

\* Bound: at most this many leave calls are made on the instance.
MaxLeaves == 1

\* Bound: the longest word of the scoring specification.
MaxLen == 4

\* Bound of the client specification: no guess is submitted once this many are
\* stored.
MaxClientGuesses == 3

\* The length of a row of the client's board.
CORDLE_WORD_LENGTH == 5

\* Bounds of the lobby specification: the leave calls made on the instance and
\* the guesses after which no further guess is submitted.
MaxLobbyLeaves == 2
MaxLobbyGuesses == 1

\* The error messages a call can throw, and the result of a call that returns.
OK == "OK"
GAME_NOT_IN_PROGRESS_MESSAGE == "GAME_NOT_IN_PROGRESS_MESSAGE"
GAME_FULL_MESSAGE == "GAME_FULL_MESSAGE"
PLAYER_NOT_IN_GAME_MESSAGE == "PLAYER_NOT_IN_GAME_MESSAGE"
PLAYER_ALREADY_IN_GAME_MESSAGE == "PLAYER_ALREADY_IN_GAME_MESSAGE"
MOVE_NOT_YOUR_TURN_MESSAGE == "MOVE_NOT_YOUR_TURN_MESSAGE"
GAME_NOT_STARTABLE_MESSAGE == "GAME_NOT_STARTABLE_MESSAGE"

\* The lines of the three word files, as the word provider reads them.
EasyWords == {<<"a", "b">>}
MediumWords == {<<"b", "a">>}
HardWords == {<<"a", "b">>, <<"b", "a">>}

\* The word the players submit as a guess in the lifecycle specification: right
\* for the secret AB, wrong for BA and for the empty secret.
GuessWords == {<<"A", "B">>}

\* The words the players submit in the guessing specification (the server does
\* not validate them: a guess may be shorter than the secret).
PlayWords == {<<"A", "B">>, <<"B", "A">>, <<"A">>}

\* The words the players submit in the client specification: two words that
\* are scored alike against the empty secret.
ClientWords == {<<"A", "B">>, <<"B", "A">>}

VARIABLES
  status,            \* state.status
  player1,           \* state.player1
  player2,           \* state.player2
  player1Ready,      \* state.player1Ready: Undefined, "true" or "false"
  player2Ready,      \* state.player2Ready
  firstPlayer,       \* state.firstPlayer
  cordle,            \* state.cordle: NoWord or a word
  difficulty,        \* state.difficulty
  guesses,           \* state.guesses
  guessesEvaluated,  \* state.guessesEvaluated: guessNumber -> row (holes left out)
  winner,            \* state.winner
  preferredPlayer1,  \* _preferredPlayer1
  preferredPlayer2,  \* _preferredPlayer2
  result,            \* what the last call returned: OK or the message thrown
  leaves,            \* the number of leave calls made so far (bounded by MaxLeaves)
  board,             \* the client controller's _board: guessNumber -> guess
  boardEvaluated,    \* the client controller's _guessesEvaulated
  boardChanged       \* whether the controller's last update emitted boardChanged

state == <<status, player1, player2, player1Ready, player2Ready, firstPlayer,
           cordle, difficulty, guesses, guessesEvaluated, winner>>

vars == <<status, player1, player2, player1Ready, player2Ready, firstPlayer,
          cordle, difficulty, guesses, guessesEvaluated, winner,
          preferredPlayer1, preferredPlayer2, result, leaves,
          board, boardEvaluated, boardChanged>>

\* The state of the client's CordleAreaController.
client == <<board, boardEvaluated, boardChanged>>

\* ------------------------------------------------------------- pure helpers

getOtherPlayerNumber(number) ==
  IF number = "Player2" THEN "Player1" ELSE "Player2"

\* JavaScript truthiness of a ready flag.
Truthy(flag) == flag = "true"

\* String.prototype.toUpperCase on one character.
UpperChar(c) ==
  CASE c = "a" -> "A"
    [] c = "b" -> "B"
    [] c = "c" -> "C"
    [] OTHER -> c

toUpperCase(w) == [i \in 1..Len(w) |-> UpperChar(w[i])]

\* _selectRandomWord: any line of the file of the given difficulty; startGame
\* keeps selectedCordle = '' when no difficulty was set.
SelectableWords(d) ==
  CASE d = "Easy" -> EasyWords
    [] d = "Medium" -> MediumWords
    [] d = "Hard" -> HardWords
    [] OTHER -> {<<>>}

\* Mutant of whoseTurn: a finished game reports the first player.
whoseTurnResetWhenOver ==
  IF status = "OVER" THEN firstPlayer
  ELSE IF firstPlayer = "Player1"
  THEN (IF Len(guesses) % 2 = 0 THEN "Player1" ELSE "Player2")
  ELSE (IF Len(guesses) % 2 = 0 THEN "Player2" ELSE "Player1")

whoseTurn ==
  IF firstPlayer = "Player1"
  THEN (IF Len(guesses) % 2 = 0 THEN "Player1" ELSE "Player2")
  ELSE (IF Len(guesses) % 2 = 0 THEN "Player2" ELSE "Player1")

\* ------------------------------------------------------------------ scoring

\* Array.prototype.indexOf, 1-based; 0 stands for -1.
indexOf(cordleCopy, c) ==
  IF \E k \in 1..Len(cordleCopy) : cordleCopy[k] = c
  THEN CHOOSE k \in 1..Len(cordleCopy) :
         /\ cordleCopy[k] = c
         /\ \A j \in 1..(k - 1) : cordleCopy[j] # c
  ELSE 0

\* Mutant of GreenPass: an exact match does not erase the secret's letter.
RECURSIVE GreenPassKeepsLetter(_, _, _, _)
GreenPassKeepsLetter(guessedWord, i, guessColors, cordleCopy) ==
  IF i > Len(guessedWord)
  THEN [guessColors |-> guessColors, cordleCopy |-> cordleCopy]
  ELSE IF i <= Len(cordleCopy) /\ guessedWord[i] = cordleCopy[i]
       THEN GreenPassKeepsLetter(guessedWord, i + 1, Append(guessColors, "Green"),
                                 cordleCopy)
       ELSE GreenPassKeepsLetter(guessedWord, i + 1, Append(guessColors, "Gray"),
                                 cordleCopy)

\* The first loop of _applyGuess from position i on.
RECURSIVE GreenPass(_, _, _, _)
GreenPass(guessedWord, i, guessColors, cordleCopy) ==
  IF i > Len(guessedWord)
  THEN [guessColors |-> guessColors, cordleCopy |-> cordleCopy]
  ELSE IF i <= Len(cordleCopy) /\ guessedWord[i] = cordleCopy[i]
       THEN GreenPass(guessedWord, i + 1, Append(guessColors, "Green"),
                      [cordleCopy EXCEPT ![i] = ""])
       ELSE GreenPass(guessedWord, i + 1, Append(guessColors, "Gray"), cordleCopy)

\* Mutant of YellowPass: a partial match does not erase the secret's letter.
RECURSIVE YellowPassKeepsLetter(_, _, _, _)
YellowPassKeepsLetter(guessedWord, i, guessColors, cordleCopy) ==
  IF i > Len(guessedWord)
  THEN guessColors
  ELSE IF guessColors[i] = "Gray" /\ indexOf(cordleCopy, guessedWord[i]) # 0
       THEN YellowPassKeepsLetter(guessedWord, i + 1,
                                  [guessColors EXCEPT ![i] = "Yellow"], cordleCopy)
       ELSE YellowPassKeepsLetter(guessedWord, i + 1, guessColors, cordleCopy)

\* The second loop of _applyGuess from position i on.
RECURSIVE YellowPass(_, _, _, _)
YellowPass(guessedWord, i, guessColors, cordleCopy) ==
  IF i > Len(guessedWord)
  THEN guessColors
  ELSE LET indexInCordle == indexOf(cordleCopy, guessedWord[i])
       IN IF guessColors[i] = "Gray" /\ indexInCordle # 0
          THEN YellowPass(guessedWord, i + 1,
                          [guessColors EXCEPT ![i] = "Yellow"],
                          [cordleCopy EXCEPT ![indexInCordle] = ""])
          ELSE YellowPass(guessedWord, i + 1, guessColors, cordleCopy)

\* (this.state.cordle ?? '').split('')
SplitCordle(c) == IF c = NoWord THEN <<>> ELSE c

\* The row _applyGuess computes for a guessed word against the secret word.
EvaluateGuess(secret, guessedWord) ==
  LET green == GreenPass(guessedWord, 1, <<>>, SplitCordle(secret))
  IN YellowPass(guessedWord, 1, green.guessColors, green.cordleCopy)

AllGreen(guessColors) ==
  \A i \in 1..Len(guessColors) : guessColors[i] = "Green"

\* ------------------------------------------------------- the client's board

\* An entry of the board that holds no guess (undefined).
NoGuess == [player |-> Undefined, guessedWord |-> <<>>, guessNumber |-> 0]

createEmptyBoard == [n \in 1..CORDLE_NUMBER_GUESSES |-> NoGuess]

createEmptyGuessesEvaluated ==
  [n \in 1..CORDLE_NUMBER_GUESSES |-> [i \in 1..CORDLE_WORD_LENGTH |-> Undefined]]

\* The controller as constructed: an empty board, no event emitted.
ClientInit ==
  /\ board = createEmptyBoard
  /\ boardEvaluated = createEmptyGuessesEvaluated
  /\ boardChanged = FALSE

\* newBoard of _updateFrom: each guess is put at index guessNumber - 1, a later
\* guess over an earlier one with the same number.
NewBoard ==
  [n \in 1..CORDLE_NUMBER_GUESSES |->
     IF \E i \in 1..Len(guesses) : guesses[i].guessNumber = n
     THEN guesses[CHOOSE i \in 1..Len(guesses) :
                    /\ guesses[i].guessNumber = n
                    /\ \A j \in (i + 1)..Len(guesses) : guesses[j].guessNumber # n]
     ELSE NoGuess]

\* newGuessesEvaluated of _updateFrom: the cells of each stored row are copied
\* into an empty row of CORDLE_WORD_LENGTH cells.
NewGuessesEvaluated ==
  [n \in 1..CORDLE_NUMBER_GUESSES |->
     LET row == IF n \in DOMAIN guessesEvaluated THEN guessesEvaluated[n] ELSE <<>>
         width == IF Len(row) > CORDLE_WORD_LENGTH THEN Len(row) ELSE CORDLE_WORD_LENGTH
     IN [i \in 1..width |-> IF i <= Len(row) THEN row[i] ELSE Undefined]]

\* _updateFrom with the current game as the new model.
UpdateFrom ==
  /\ IF NewBoard # board /\ NewGuessesEvaluated # boardEvaluated
     THEN /\ board' = NewBoard
          /\ boardEvaluated' = NewGuessesEvaluated
          /\ boardChanged' = TRUE
     ELSE /\ boardChanged' = FALSE
          /\ UNCHANGED <<board, boardEvaluated>>
  /\ UNCHANGED <<state, preferredPlayer1, preferredPlayer2, result, leaves>>

\* ------------------------------------------------------------------ actions

\* Mutant of a call that throws: the status is reset before the error is raised.
ThrowAfterStatusWrite(message) ==
  /\ result' = message
  /\ status' = "WAITING_FOR_PLAYERS"
  /\ UNCHANGED <<player1, player2, player1Ready, player2Ready, firstPlayer,
                 cordle, difficulty, guesses, guessesEvaluated, winner,
                 preferredPlayer1, preferredPlayer2>>

\* A call that throws: nothing but the reported result changes.
Throw(message) ==
  /\ result' = message
  /\ UNCHANGED <<state, preferredPlayer1, preferredPlayer2>>

\* Mutant of JoinSlot: the slots of the prior game are not preferred.
JoinSlotFirstEmpty(p) ==
  IF player1 = Undefined THEN "Player1"
  ELSE IF player2 = Undefined THEN "Player2"
  ELSE "none"

\* The slot _join gives to player p ("none": the game is full).
JoinSlot(p) ==
  IF preferredPlayer1 = p /\ player1 = Undefined THEN "Player1"
  ELSE IF preferredPlayer2 = p /\ player2 = Undefined THEN "Player2"
  ELSE IF player1 = Undefined THEN "Player1"
  ELSE IF player2 = Undefined THEN "Player2"
  ELSE "none"

\* Mutant of _join: the game waits to start as soon as one player has joined.
JoinAlwaysWaitingToStart(p) ==
  IF player1 = p \/ player2 = p
  THEN Throw(PLAYER_ALREADY_IN_GAME_MESSAGE)
  ELSE IF JoinSlot(p) = "none"
  THEN Throw(GAME_FULL_MESSAGE)
  ELSE /\ player1' = IF JoinSlot(p) = "Player1" THEN p ELSE player1
       /\ player2' = IF JoinSlot(p) = "Player2" THEN p ELSE player2
       /\ status' = "WAITING_TO_START"
       /\ result' = OK
       /\ UNCHANGED <<player1Ready, player2Ready, firstPlayer, cordle, difficulty,
                      guesses, guessesEvaluated, winner,
                      preferredPlayer1, preferredPlayer2>>

\* Mutant of _join: a player already in a slot is not turned away.
JoinWithoutDuplicateCheck(p) ==
  IF JoinSlot(p) = "none"
  THEN Throw(GAME_FULL_MESSAGE)
  ELSE /\ player1' = IF JoinSlot(p) = "Player1" THEN p ELSE player1
       /\ player2' = IF JoinSlot(p) = "Player2" THEN p ELSE player2
       /\ status' = IF player1' # Undefined /\ player2' # Undefined
                    THEN "WAITING_TO_START"
                    ELSE "WAITING_FOR_PLAYERS"
       /\ result' = OK
       /\ UNCHANGED <<player1Ready, player2Ready, firstPlayer, cordle, difficulty,
                      guesses, guessesEvaluated, winner,
                      preferredPlayer1, preferredPlayer2>>

\* Mutant of _join: the full game is reported before the player already in it.
JoinChecksFullFirst(p) ==
  IF JoinSlot(p) = "none"
  THEN Throw(GAME_FULL_MESSAGE)
  ELSE IF player1 = p \/ player2 = p
  THEN Throw(PLAYER_ALREADY_IN_GAME_MESSAGE)
  ELSE /\ player1' = IF JoinSlot(p) = "Player1" THEN p ELSE player1
       /\ player2' = IF JoinSlot(p) = "Player2" THEN p ELSE player2
       /\ status' = IF player1' # Undefined /\ player2' # Undefined
                    THEN "WAITING_TO_START"
                    ELSE "WAITING_FOR_PLAYERS"
       /\ result' = OK
       /\ UNCHANGED <<player1Ready, player2Ready, firstPlayer, cordle, difficulty,
                      guesses, guessesEvaluated, winner,
                      preferredPlayer1, preferredPlayer2>>

\* Mutant of _join: the status is not advanced when the second slot is filled.
JoinKeepsWaitingForPlayers(p) ==
  IF player1 = p \/ player2 = p
  THEN Throw(PLAYER_ALREADY_IN_GAME_MESSAGE)
  ELSE IF JoinSlot(p) = "none"
  THEN Throw(GAME_FULL_MESSAGE)
  ELSE /\ player1' = IF JoinSlot(p) = "Player1" THEN p ELSE player1
       /\ player2' = IF JoinSlot(p) = "Player2" THEN p ELSE player2
       /\ status' = "WAITING_FOR_PLAYERS"
       /\ result' = OK
       /\ UNCHANGED <<player1Ready, player2Ready, firstPlayer, cordle, difficulty,
                      guesses, guessesEvaluated, winner,
                      preferredPlayer1, preferredPlayer2>>

Join(p) ==
  IF player1 = p \/ player2 = p
  THEN Throw(PLAYER_ALREADY_IN_GAME_MESSAGE)
  ELSE IF JoinSlot(p) = "none"
  THEN Throw(GAME_FULL_MESSAGE)
  ELSE /\ player1' = IF JoinSlot(p) = "Player1" THEN p ELSE player1
       /\ player2' = IF JoinSlot(p) = "Player2" THEN p ELSE player2
       /\ status' = IF player1' # Undefined /\ player2' # Undefined
                    THEN "WAITING_TO_START"
                    ELSE "WAITING_FOR_PLAYERS"
       /\ result' = OK
       /\ UNCHANGED <<player1Ready, player2Ready, firstPlayer, cordle, difficulty,
                      guesses, guessesEvaluated, winner,
                      preferredPlayer1, preferredPlayer2>>

\* Mutant of _leave: a finished game is not left alone, the slot is vacated.
LeaveVacatesWhenOver(p) ==
  IF player1 # p /\ player2 # p
  THEN IF status = "OVER"
       THEN /\ result' = OK
            /\ UNCHANGED <<state, preferredPlayer1, preferredPlayer2>>
       ELSE Throw(PLAYER_NOT_IN_GAME_MESSAGE)
  ELSE LET playerLeft == IF player1 = p THEN "Player1" ELSE "Player2"
       IN /\ player1' = IF playerLeft = "Player1" THEN Undefined ELSE player1
          /\ player1Ready' = IF playerLeft = "Player1" THEN "false" ELSE player1Ready
          /\ player2' = IF playerLeft = "Player2" THEN Undefined ELSE player2
          /\ player2Ready' = IF playerLeft = "Player2" THEN "false" ELSE player2Ready
          /\ IF status = "IN_PROGRESS"
             THEN /\ status' = "OVER"
                  /\ winner' = IF playerLeft = "Player1" THEN player2' ELSE player1'
             ELSE /\ status' = IF status = "OVER" THEN "OVER" ELSE "WAITING_FOR_PLAYERS"
                  /\ winner' = winner
          /\ result' = OK
          /\ UNCHANGED <<firstPlayer, cordle, difficulty, guesses, guessesEvaluated,
                         preferredPlayer1, preferredPlayer2>>

\* Mutant of _leave: the ready flag of the vacated slot is kept.
LeaveKeepsReady(p) ==
  IF status = "OVER"
  THEN /\ result' = OK
       /\ UNCHANGED <<state, preferredPlayer1, preferredPlayer2>>
  ELSE IF player1 # p /\ player2 # p
  THEN Throw(PLAYER_NOT_IN_GAME_MESSAGE)
  ELSE LET playerLeft == IF player1 = p THEN "Player1" ELSE "Player2"
       IN /\ player1' = IF playerLeft = "Player1" THEN Undefined ELSE player1
          /\ player2' = IF playerLeft = "Player2" THEN Undefined ELSE player2
          /\ UNCHANGED <<player1Ready, player2Ready>>
          /\ IF status = "IN_PROGRESS"
             THEN /\ status' = "OVER"
                  /\ winner' = IF playerLeft = "Player1" THEN player2' ELSE player1'
             ELSE /\ status' = "WAITING_FOR_PLAYERS"
                  /\ winner' = winner
          /\ result' = OK
          /\ UNCHANGED <<firstPlayer, cordle, difficulty, guesses, guessesEvaluated,
                         preferredPlayer1, preferredPlayer2>>

\* Mutant of _leave: leaving a game in progress sends it back to waiting.
LeaveReopensGame(p) ==
  IF status = "OVER"
  THEN /\ result' = OK
       /\ UNCHANGED <<state, preferredPlayer1, preferredPlayer2>>
  ELSE IF player1 # p /\ player2 # p
  THEN Throw(PLAYER_NOT_IN_GAME_MESSAGE)
  ELSE LET playerLeft == IF player1 = p THEN "Player1" ELSE "Player2"
       IN /\ player1' = IF playerLeft = "Player1" THEN Undefined ELSE player1
          /\ player1Ready' = IF playerLeft = "Player1" THEN "false" ELSE player1Ready
          /\ player2' = IF playerLeft = "Player2" THEN Undefined ELSE player2
          /\ player2Ready' = IF playerLeft = "Player2" THEN "false" ELSE player2Ready
          /\ status' = "WAITING_FOR_PLAYERS"
          /\ winner' = winner
          /\ result' = OK
          /\ UNCHANGED <<firstPlayer, cordle, difficulty, guesses, guessesEvaluated,
                         preferredPlayer1, preferredPlayer2>>

\* Mutant of _leave: the player who leaves a game in progress is its winner.
LeaveWinnerIsLeaver(p) ==
  IF status = "OVER"
  THEN /\ result' = OK
       /\ UNCHANGED <<state, preferredPlayer1, preferredPlayer2>>
  ELSE IF player1 # p /\ player2 # p
  THEN Throw(PLAYER_NOT_IN_GAME_MESSAGE)
  ELSE LET playerLeft == IF player1 = p THEN "Player1" ELSE "Player2"
       IN /\ player1' = IF playerLeft = "Player1" THEN Undefined ELSE player1
          /\ player1Ready' = IF playerLeft = "Player1" THEN "false" ELSE player1Ready
          /\ player2' = IF playerLeft = "Player2" THEN Undefined ELSE player2
          /\ player2Ready' = IF playerLeft = "Player2" THEN "false" ELSE player2Ready
          /\ IF status = "IN_PROGRESS"
             THEN /\ status' = "OVER"
                  /\ winner' = p
             ELSE /\ status' = "WAITING_FOR_PLAYERS"
                  /\ winner' = winner
          /\ result' = OK
          /\ UNCHANGED <<firstPlayer, cordle, difficulty, guesses, guessesEvaluated,
                         preferredPlayer1, preferredPlayer2>>

Leave(p) ==
  IF status = "OVER"
  THEN /\ result' = OK
       /\ UNCHANGED <<state, preferredPlayer1, preferredPlayer2>>
  ELSE IF player1 # p /\ player2 # p
  THEN Throw(PLAYER_NOT_IN_GAME_MESSAGE)
  ELSE LET playerLeft == IF player1 = p THEN "Player1" ELSE "Player2"
       IN /\ player1' = IF playerLeft = "Player1" THEN Undefined ELSE player1
          /\ player1Ready' = IF playerLeft = "Player1" THEN "false" ELSE player1Ready
          /\ player2' = IF playerLeft = "Player2" THEN Undefined ELSE player2
          /\ player2Ready' = IF playerLeft = "Player2" THEN "false" ELSE player2Ready
          /\ IF status = "IN_PROGRESS"
             THEN /\ status' = "OVER"
                  /\ winner' = IF playerLeft = "Player1" THEN player2' ELSE player1'
             ELSE /\ status' = "WAITING_FOR_PLAYERS"
                  /\ winner' = winner
          /\ result' = OK
          /\ UNCHANGED <<firstPlayer, cordle, difficulty, guesses, guessesEvaluated,
                         preferredPlayer1, preferredPlayer2>>

\* Mutant of StartFirstPlayer: the alternation default is never overridden.
StartFirstPlayerKeepsDefault == firstPlayer

\* The firstPlayer startGame settles on.
StartFirstPlayer ==
  IF ~(preferredPlayer1 = player1 \/ preferredPlayer2 = player2)
  THEN "Player1"
  ELSE firstPlayer

\* Mutant of DrawsWord: the firstPlayer of before the call decides who draws.
DrawsWordBeforeRecompute(p) ==
  \/ firstPlayer = "Player1" /\ p = player1
  \/ firstPlayer = "Player2" /\ p = player2

\* Whether the caller p of startGame is the one who draws the secret word.
DrawsWord(p) ==
  \/ StartFirstPlayer = "Player1" /\ p = player1
  \/ StartFirstPlayer = "Player2" /\ p = player2

\* Mutant of startGame: every caller draws a word, whichever slot moves first.
StartGameEveryCallerDraws(p) ==
  IF status # "WAITING_TO_START"
  THEN Throw(GAME_NOT_STARTABLE_MESSAGE)
  ELSE IF player1 # p /\ player2 # p
  THEN Throw(PLAYER_NOT_IN_GAME_MESSAGE)
  ELSE /\ player1Ready' = IF player1 = p THEN "true" ELSE player1Ready
       /\ player2Ready' = IF player2 = p THEN "true" ELSE player2Ready
       /\ firstPlayer' = StartFirstPlayer
       /\ IF player1 # Undefined /\ player2 # Undefined
          THEN /\ \E selectedCordle \in SelectableWords(difficulty) :
                    cordle' = toUpperCase(selectedCordle)
               /\ status' = IF Truthy(player1Ready') /\ Truthy(player2Ready')
                            THEN "IN_PROGRESS"
                            ELSE "WAITING_TO_START"
          ELSE UNCHANGED <<cordle, status>>
       /\ result' = OK
       /\ UNCHANGED <<player1, player2, difficulty, guesses, guessesEvaluated,
                      winner, preferredPlayer1, preferredPlayer2>>

\* Mutant of startGame: the caller is looked up before the status is checked.
StartGameChecksPlayerFirst(p) ==
  IF player1 # p /\ player2 # p
  THEN Throw(PLAYER_NOT_IN_GAME_MESSAGE)
  ELSE IF status # "WAITING_TO_START"
  THEN Throw(GAME_NOT_STARTABLE_MESSAGE)
  ELSE /\ player1Ready' = IF player1 = p THEN "true" ELSE player1Ready
       /\ player2Ready' = IF player2 = p THEN "true" ELSE player2Ready
       /\ firstPlayer' = StartFirstPlayer
       /\ IF player1 # Undefined /\ player2 # Undefined
          THEN /\ IF DrawsWord(p)
                  THEN \E selectedCordle \in SelectableWords(difficulty) :
                         cordle' = toUpperCase(selectedCordle)
                  ELSE cordle' = cordle
               /\ status' = IF Truthy(player1Ready') /\ Truthy(player2Ready')
                            THEN "IN_PROGRESS"
                            ELSE "WAITING_TO_START"
          ELSE UNCHANGED <<cordle, status>>
       /\ result' = OK
       /\ UNCHANGED <<player1, player2, difficulty, guesses, guessesEvaluated,
                      winner, preferredPlayer1, preferredPlayer2>>

\* Mutant of startGame: one ready player is enough to start the game.
StartGameWhenOneReady(p) ==
  IF status # "WAITING_TO_START"
  THEN Throw(GAME_NOT_STARTABLE_MESSAGE)
  ELSE IF player1 # p /\ player2 # p
  THEN Throw(PLAYER_NOT_IN_GAME_MESSAGE)
  ELSE /\ player1Ready' = IF player1 = p THEN "true" ELSE player1Ready
       /\ player2Ready' = IF player2 = p THEN "true" ELSE player2Ready
       /\ firstPlayer' = StartFirstPlayer
       /\ IF player1 # Undefined /\ player2 # Undefined
          THEN /\ IF DrawsWord(p)
                  THEN \E selectedCordle \in SelectableWords(difficulty) :
                         cordle' = toUpperCase(selectedCordle)
                  ELSE cordle' = cordle
               /\ status' = IF Truthy(player1Ready') \/ Truthy(player2Ready')
                            THEN "IN_PROGRESS"
                            ELSE "WAITING_TO_START"
          ELSE UNCHANGED <<cordle, status>>
       /\ result' = OK
       /\ UNCHANGED <<player1, player2, difficulty, guesses, guessesEvaluated,
                      winner, preferredPlayer1, preferredPlayer2>>

StartGame(p) ==
  IF status # "WAITING_TO_START"
  THEN Throw(GAME_NOT_STARTABLE_MESSAGE)
  ELSE IF player1 # p /\ player2 # p
  THEN Throw(PLAYER_NOT_IN_GAME_MESSAGE)
  ELSE /\ player1Ready' = IF player1 = p THEN "true" ELSE player1Ready
       /\ player2Ready' = IF player2 = p THEN "true" ELSE player2Ready
       /\ firstPlayer' = StartFirstPlayer
       /\ IF player1 # Undefined /\ player2 # Undefined
          THEN /\ IF DrawsWord(p)
                  THEN \E selectedCordle \in SelectableWords(difficulty) :
                         cordle' = toUpperCase(selectedCordle)
                  ELSE cordle' = cordle
               /\ status' = IF Truthy(player1Ready') /\ Truthy(player2Ready')
                            THEN "IN_PROGRESS"
                            ELSE "WAITING_TO_START"
          ELSE UNCHANGED <<cordle, status>>
       /\ result' = OK
       /\ UNCHANGED <<player1, player2, difficulty, guesses, guessesEvaluated,
                      winner, preferredPlayer1, preferredPlayer2>>

SetDifficultyLevel(d) ==
  /\ difficulty' = d
  /\ result' = OK
  /\ UNCHANGED <<status, player1, player2, player1Ready, player2Ready, firstPlayer,
                 cordle, guesses, guessesEvaluated, winner,
                 preferredPlayer1, preferredPlayer2>>

\* The occupant of the slot whose turn it is.
TurnPlayer == IF whoseTurn = "Player1" THEN player1 ELSE player2

\* Mutant of ApplyGuess: the draw check does not look at the winner.
ApplyGuessDrawOverridesWin(guess) ==
  LET guessColors == EvaluateGuess(cordle, guess.guessedWord)
      won == AllGreen(guessColors)
      draw == Len(guesses) + 1 >= CORDLE_NUMBER_GUESSES
  IN /\ guesses' = Append(guesses, guess)
     /\ guessesEvaluated' =
          [n \in DOMAIN guessesEvaluated \cup {guess.guessNumber} |->
             IF n = guess.guessNumber THEN guessColors ELSE guessesEvaluated[n]]
     /\ status' = IF won \/ draw THEN "OVER" ELSE status
     /\ winner' = IF draw THEN "DRAW" ELSE IF won THEN guess.player ELSE winner

\* _applyGuess
ApplyGuess(guess) ==
  LET guessColors == EvaluateGuess(cordle, guess.guessedWord)
      won == AllGreen(guessColors)
      winnerAfterRow == IF won THEN guess.player ELSE winner
      draw == Len(guesses) + 1 >= CORDLE_NUMBER_GUESSES /\ winnerAfterRow = Undefined
  IN /\ guesses' = Append(guesses, guess)
     /\ guessesEvaluated' =
          [n \in DOMAIN guessesEvaluated \cup {guess.guessNumber} |->
             IF n = guess.guessNumber THEN guessColors ELSE guessesEvaluated[n]]
     /\ status' = IF won \/ draw THEN "OVER" ELSE status
     /\ winner' = IF draw THEN "DRAW" ELSE winnerAfterRow

\* Mutant of applyMove: the turn is checked before the status.
ApplyMoveChecksTurnFirst(guess) ==
  IF guess.player # TurnPlayer
  THEN Throw(MOVE_NOT_YOUR_TURN_MESSAGE)
  ELSE IF status # "IN_PROGRESS"
  THEN Throw(GAME_NOT_IN_PROGRESS_MESSAGE)
  ELSE /\ ApplyGuess(guess)
       /\ result' = OK
       /\ UNCHANGED <<player1, player2, player1Ready, player2Ready, firstPlayer,
                      cordle, difficulty, preferredPlayer1, preferredPlayer2>>

ApplyMove(guess) ==
  IF status # "IN_PROGRESS"
  THEN Throw(GAME_NOT_IN_PROGRESS_MESSAGE)
  ELSE IF guess.player # TurnPlayer
  THEN Throw(MOVE_NOT_YOUR_TURN_MESSAGE)
  ELSE /\ ApplyGuess(guess)
       /\ result' = OK
       /\ UNCHANGED <<player1, player2, player1Ready, player2Ready, firstPlayer,
                      cordle, difficulty, preferredPlayer1, preferredPlayer2>>

\* ------------------------------------------------------------ specification

\* new CordleGame(priorGame?): the prior game's slots and firstPlayer are read once.
Init ==
  /\ preferredPlayer1 \in {Undefined, "p1"}
  /\ preferredPlayer2 \in {Undefined, "p2"}
  /\ \E priorFirstPlayer \in {"Player1", "Player2"} :
       firstPlayer = getOtherPlayerNumber(priorFirstPlayer)
  /\ status = "WAITING_FOR_PLAYERS"
  /\ player1 = Undefined
  /\ player2 = Undefined
  /\ player1Ready = Undefined
  /\ player2Ready = Undefined
  /\ cordle = NoWord
  /\ difficulty = Undefined
  /\ guesses = <<>>
  /\ guessesEvaluated = <<>>
  /\ winner = Undefined
  /\ result = OK
  /\ leaves = 0
  /\ ClientInit

\* The guesses submitted to applyMove: the client numbers a guess guessCount + 1.
Moves(words) ==
  [player : Players, guessedWord : words, guessNumber : {Len(guesses) + 1}]

JoinCall == (\E p \in Players : Join(p)) /\ UNCHANGED <<leaves, client>>
LeaveCall ==
  /\ leaves < MaxLeaves
  /\ \E p \in Players : Leave(p)
  /\ leaves' = leaves + 1
  /\ UNCHANGED client
StartGameCall == (\E p \in Players : StartGame(p)) /\ UNCHANGED <<leaves, client>>
SetDifficultyLevelCall ==
  (\E d \in Difficulties : SetDifficultyLevel(d)) /\ UNCHANGED <<leaves, client>>
ApplyMoveCall ==
  /\ Len(guesses) < MaxGuesses
  /\ \E guess \in Moves(GuessWords) : ApplyMove(guess)
  /\ UNCHANGED <<leaves, client>>

Next ==
  \/ JoinCall
  \/ LeaveCall
  \/ StartGameCall
  \/ SetDifficultyLevelCall
  \/ ApplyMoveCall

\* The lifecycle: every call, in every order, on one instance.
Spec == Init /\ [][Next]_vars

\* ---------------------------------------------------- the lobby specification

LobbyLeaveCall ==
  leaves < MaxLobbyLeaves /\ (\E p \in Players : Leave(p)) /\ leaves' = leaves + 1
  /\ UNCHANGED client

LobbyMoveCall ==
  /\ Len(guesses) < MaxLobbyGuesses
  /\ \E guess \in Moves(GuessWords) : ApplyMove(guess)
  /\ UNCHANGED <<leaves, client>>

LobbyNext ==
  \/ JoinCall
  \/ LobbyLeaveCall
  \/ StartGameCall
  \/ SetDifficultyLevelCall
  \/ LobbyMoveCall

\* The lobby: the same instance and the same calls as Spec, with more leave
\* calls (players come and go before and after a game) and games cut short.
LobbySpec == Init /\ [][LobbyNext]_vars

\* --------------------------------------------------- the rematch specification

\* new CordleGame(priorGame) for a prior game that p1 (slot 1) and p2 (slot 2)
\* played with firstPlayer Player1.
RematchInit ==
  /\ Init
  /\ preferredPlayer1 = "p1"
  /\ preferredPlayer2 = "p2"
  /\ firstPlayer = getOtherPlayerNumber("Player1")

\* The lobby of the game constructed for a rematch.
RematchSpec == RematchInit /\ [][LobbyNext]_vars

\* ----------------------------------------------------- the start specification

\* A new game that two players a and b have joined, a first: a takes the slot
\* _join gives it in the empty game and b takes the other one.  A difficulty
\* may have been set; nobody has called startGame yet.
StartInit ==
  /\ preferredPlayer1 \in {Undefined, "p1"}
  /\ preferredPlayer2 \in {Undefined, "p2"}
  /\ \E priorFirstPlayer \in {"Player1", "Player2"} :
       firstPlayer = getOtherPlayerNumber(priorFirstPlayer)
  /\ \E a \in Players, b \in Players :
       /\ a # b
       /\ IF preferredPlayer1 # a /\ preferredPlayer2 = a
          THEN player1 = b /\ player2 = a
          ELSE player1 = a /\ player2 = b
  /\ status = "WAITING_TO_START"
  /\ player1Ready = Undefined
  /\ player2Ready = Undefined
  /\ cordle = NoWord
  /\ difficulty \in Difficulties \cup {Undefined}
  /\ guesses = <<>>
  /\ guessesEvaluated = <<>>
  /\ winner = Undefined
  /\ result = OK
  /\ leaves = 0
  /\ ClientInit

\* startGame called by an occupant who has not reported ready yet.
StartOccupantCall ==
  /\ \E p \in {player1, player2} :
       /\ (IF p = player1 THEN player1Ready ELSE player2Ready) # "true"
       /\ StartGame(p)
  /\ UNCHANGED <<leaves, client>>

StartNext == StartOccupantCall

\* The two occupants' start calls, in either order, with nothing in between.
StartSpec == StartInit /\ [][StartNext]_vars

\* ------------------------------------------------- the guessing specification

\* A game that startGame has just moved to IN_PROGRESS: a fresh pairing (slot 1
\* moves first) or a rematch of p1 and p2 in their old slots (slot 2 moves
\* first), with the secret drawn for the difficulty that was set, if any.  Each
\* of these states is a reachable state of Spec.
PlayInit ==
  /\ \/ preferredPlayer1 = Undefined /\ preferredPlayer2 = Undefined
        /\ firstPlayer = "Player1"
     \/ preferredPlayer1 = "p1" /\ preferredPlayer2 = "p2"
        /\ firstPlayer = "Player2"
  /\ status = "IN_PROGRESS"
  /\ player1 = "p1"
  /\ player2 = "p2"
  /\ player1Ready = "true"
  /\ player2Ready = "true"
  /\ difficulty \in {Undefined, "Easy", "Medium"}
  /\ \E selectedCordle \in SelectableWords(difficulty) :
       cordle = toUpperCase(selectedCordle)
  /\ guesses = <<>>
  /\ guessesEvaluated = <<>>
  /\ winner = Undefined
  /\ result = OK
  /\ leaves = 0
  /\ ClientInit

PlayMoveCall ==
  /\ Len(guesses) < MaxGuesses
  /\ \E guess \in Moves(PlayWords) : ApplyMove(guess)
  /\ UNCHANGED <<leaves, client>>

PlayNext == PlayMoveCall

\* Guessing: every sequence of applyMove calls on a started game.
PlaySpec == PlayInit /\ [][PlayNext]_vars

\* -------------------------------------------- the stale-snapshot specification

\* Mutant of SnapshotTurn: the client takes slot 1 to move first in every game.
SnapshotTurnSlot1First(n) ==
  IF n % 2 = 0 THEN player1 ELSE player2

\* The player whose turn the client shows when its copy of the game holds n
\* guesses (CordleAreaController.whoseTurn).
SnapshotTurn(n) ==
  IF firstPlayer = "Player1"
  THEN IF n % 2 = 0 THEN player1 ELSE player2
  ELSE IF n % 2 = 0 THEN player2 ELSE player1

\* CordleAreaController.whoseTurn on a copy of the current game (guessCount is
\* guesses.length); both players are occupants of the area.
ClientWhoseTurn ==
  IF player1 = Undefined \/ player2 = Undefined \/ status # "IN_PROGRESS"
  THEN Undefined
  ELSE SnapshotTurn(Len(guesses))

\* The guesses the clients submit: the board lets a player type only when the
\* client's copy of the game (the current state or an earlier one, n guesses
\* long) shows their turn, and makeMove numbers the guess n + 1.
StaleMoves(words) ==
  {[player |-> SnapshotTurn(n), guessedWord |-> w, guessNumber |-> n + 1] :
     n \in 0..Len(guesses), w \in words}

StaleMoveCall ==
  /\ Len(guesses) < MaxGuesses
  /\ \E guess \in StaleMoves(GuessWords) : ApplyMove(guess)
  /\ UNCHANGED <<leaves, client>>

StaleNext == StaleMoveCall

\* Guessing by clients whose copy of the game may lag behind the server's.
StaleSpec == PlayInit /\ [][StaleNext]_vars

\* ---------------------------------------------------- the client specification

ClientMoveCall ==
  /\ Len(guesses) < MaxClientGuesses
  /\ \E guess \in StaleMoves(ClientWords) : ApplyMove(guess)
  /\ UNCHANGED <<leaves, client>>

ClientNext ==
  \/ ClientMoveCall
  \/ UpdateFrom

\* A started game and one client controller that receives the game, now and
\* then, as its new model.
ClientSpec == PlayInit /\ [][ClientNext]_vars

\* -------------------------------------------------- the scoring specification

Alphabet == {"A", "B", "C"}

\* Every word over the alphabet of at most n letters.
Words(n) == UNION {[1..k -> Alphabet] : k \in 0..n}

SATIN == <<"S", "A", "T", "I", "N">>
TOOTH == <<"T", "O", "O", "T", "H">>
CORDL == <<"C", "O", "R", "D", "L">>
COLDX == <<"C", "O", "L", "D", "X">>
LLLLC == <<"L", "L", "L", "L", "C">>

\* The secret words and the guessed words scoring is checked on.
ScoreSecrets == Words(MaxLen) \cup {SATIN, CORDL}
ScoreGuesses == Words(MaxLen) \cup {TOOTH, CORDL, COLDX, LLLLC}

\* A started game of p1 and p2 whose secret is any of the secret words.
ScoreInit ==
  /\ preferredPlayer1 = Undefined
  /\ preferredPlayer2 = Undefined
  /\ firstPlayer = "Player1"
  /\ status = "IN_PROGRESS"
  /\ player1 = "p1"
  /\ player2 = "p2"
  /\ player1Ready = "true"
  /\ player2Ready = "true"
  /\ difficulty = "Easy"
  /\ cordle \in ScoreSecrets
  /\ guesses = <<>>
  /\ guessesEvaluated = <<>>
  /\ winner = Undefined
  /\ result = OK
  /\ leaves = 0
  /\ ClientInit

\* The first guess of the game, any of the guessed words.
ScoreMoveCall ==
  /\ guesses = <<>>
  /\ \E guess \in Moves(ScoreGuesses) : ApplyMove(guess)
  /\ UNCHANGED <<leaves, client>>

ScoreNext == ScoreMoveCall

\* Scoring: one applyMove call on a started game, for every secret and guess.
ScoreSpec == ScoreInit /\ [][ScoreNext]_vars

\* ------------------------------------------------------------------- claims

Colours == {"Green", "Yellow", "Gray"}

\* The number of positions of word w that hold letter c.
Occurrences(w, c) == Cardinality({k \in 1..Len(w) : w[k] = c})

\* The stored guesses that have a stored row.
Scored == {n \in DOMAIN guessesEvaluated : n <= Len(guesses)}

\* C1: for every scored guess G against the secret S and every letter c, the
\* cells coloured Green or Yellow at positions where G holds c are no more than
\* the occurrences of c in S; and SATIN / TOOTH scores Yellow, Gray, Gray,
\* Gray, Gray.
C1_LetterConsumedOnce ==
  \A n \in Scored :
    LET G == guesses[n].guessedWord
        row == guessesEvaluated[n]
        S == SplitCordle(cordle)
    IN /\ Len(row) = Len(G)
       /\ \A i \in 1..Len(row) : row[i] \in Colours
       /\ \A c \in {G[i] : i \in 1..Len(G)} :
            Cardinality({i \in 1..Len(G) :
                           G[i] = c /\ row[i] \in {"Green", "Yellow"}})
              <= Occurrences(S, c)
       /\ (S = SATIN /\ G = TOOTH)
            => row = <<"Yellow", "Gray", "Gray", "Gray", "Gray">>

C1_Witness ==
  /\ cordle = SATIN
  /\ Len(guesses) = 1
  /\ guesses[1].guessedWord = TOOTH
  /\ guessesEvaluated[1] = <<"Yellow", "Gray", "Gray", "Gray", "Gray">>

\* The row the two-pass rule prescribes for guess G against secret S of the
\* same length.
ExpectedCell(S, G, i) ==
  IF G[i] = S[i] THEN "Green"
  ELSE IF Cardinality({j \in 1..(i - 1) : G[j] # S[j] /\ G[j] = G[i]})
            < Cardinality({k \in 1..Len(S) : S[k] = G[i] /\ G[k] # S[k]})
       THEN "Yellow"
       ELSE "Gray"

\* C2: for a guess of the secret's length, cell i is Green iff G[i] = S[i]; a
\* non-Green cell i is Yellow iff fewer non-Green positions before i hold G[i]
\* than the secret has positions holding G[i] that are not exact matches; every
\* other cell is Gray.
C2_RowIsTwoPassRow ==
  \A n \in Scored :
    LET G == guesses[n].guessedWord
        S == SplitCordle(cordle)
    IN Len(G) = Len(S)
         => guessesEvaluated[n] = [i \in 1..Len(G) |-> ExpectedCell(S, G, i)]

C2_Witness ==
  /\ cordle = CORDL
  /\ Len(guesses) = 1
  /\ guesses[1].guessedWord = COLDX
  /\ guessesEvaluated[1] = <<"Green", "Green", "Yellow", "Green", "Gray">>

\* C3: a step that appends a guess whose stored row is all Green ends with status
\* OVER and the guess's player as winner, whatever the number of the guess.
C3_AllGreenWins ==
  [][(/\ Len(guesses') = Len(guesses) + 1
      /\ guesses'[Len(guesses')].guessNumber \in DOMAIN guessesEvaluated'
      /\ AllGreen(guessesEvaluated'[guesses'[Len(guesses')].guessNumber]))
       => /\ status' = "OVER"
          /\ winner' = guesses'[Len(guesses')].player]_vars

C3_Witness ==
  /\ Len(guesses) = CORDLE_NUMBER_GUESSES
  /\ guessesEvaluated[CORDLE_NUMBER_GUESSES] = <<"Green", "Green">>
  /\ status = "OVER"
  /\ winner = guesses[CORDLE_NUMBER_GUESSES].player

\* No stored row is all Green.
NoRowAllGreen ==
  \A n \in 1..Len(guesses) :
    n \in DOMAIN guessesEvaluated => ~AllGreen(guessesEvaluated[n])

\* C4: once six guesses are stored and none of their rows is all Green, status
\* is OVER and winner is DRAW (so a seventh applyMove throws
\* GAME_NOT_IN_PROGRESS_MESSAGE).
C4_DrawAfterSixGuesses ==
  (Len(guesses) >= CORDLE_NUMBER_GUESSES /\ NoRowAllGreen)
    => (status = "OVER" /\ winner = "DRAW")

\* C5: applyMove throws GAME_NOT_IN_PROGRESS_MESSAGE whenever status is not
\* IN_PROGRESS; in status IN_PROGRESS it throws MOVE_NOT_YOUR_TURN_MESSAGE
\* whenever the guess's player is not the occupant of the slot whoseTurn names;
\* otherwise the guess is appended and its row stored.
C5_ApplyMoveOutcome ==
  [][\A guess \in Moves(GuessWords) :
       ApplyMove(guess) =>
         IF status # "IN_PROGRESS"
         THEN result' = GAME_NOT_IN_PROGRESS_MESSAGE /\ UNCHANGED state
         ELSE IF guess.player # (IF whoseTurn = "Player1" THEN player1 ELSE player2)
         THEN result' = MOVE_NOT_YOUR_TURN_MESSAGE /\ UNCHANGED state
         ELSE /\ result' = OK
              /\ guesses' = Append(guesses, guess)
              /\ guess.guessNumber \in DOMAIN guessesEvaluated'
              /\ guessesEvaluated'[guess.guessNumber]
                   = EvaluateGuess(cordle, guess.guessedWord)]_vars

C5_Witness ==
  /\ status = "IN_PROGRESS"
  /\ Len(guesses) = 1
  /\ result = MOVE_NOT_YOUR_TURN_MESSAGE

\* The slot the parity of guesses.length selects.
TurnByParity ==
  IF Len(guesses) % 2 = 0 THEN firstPlayer ELSE getOtherPlayerNumber(firstPlayer)

\* C6: whoseTurn is the firstPlayer slot when guesses.length is even and the
\* other slot when it is odd, in every status; a step that appends a guess
\* flips it.
C6_WhoseTurnByParity ==
  [][/\ whoseTurn = TurnByParity
     /\ whoseTurn' = TurnByParity'
     /\ Len(guesses') = Len(guesses) + 1 => whoseTurn' # whoseTurn]_vars

C6_Witness ==
  /\ status = "OVER"
  /\ Len(guesses) = 3
  /\ firstPlayer = "Player2"
  /\ whoseTurn = "Player1"

\* C7: guesses.length is at most 6 in every reachable state.
C7_AtMostSixGuesses == Len(guesses) <= CORDLE_NUMBER_GUESSES

\* C8: whenever status is IN_PROGRESS the secret word is set.
C8_SecretSetInProgress == status = "IN_PROGRESS" => cordle # NoWord

\* C9: once a secret word has been drawn (cordle is neither undefined nor the
\* empty string stored when no difficulty was set), no call changes it.
C9_SecretAssignedOnce ==
  [][(cordle # NoWord /\ cordle # <<>>) => cordle' = cordle]_vars

\* C10: once status is OVER, no call changes status.
C10_OverIsTerminal == [][status = "OVER" => status' = "OVER"]_vars

\* --------------------------------------------------------- joining (C11-C14)

\* C11: a join that succeeds puts the player in slot 1 if the player is the
\* preferred player of slot 1 and slot 1 is empty, otherwise in slot 2 if the
\* player is the preferred player of slot 2 and slot 2 is empty, otherwise in
\* the lowest-numbered empty slot; the other slot keeps its occupant.
C11_JoinPlacement ==
  [][\A p \in Players :
       (Join(p) /\ result' = OK) =>
         IF preferredPlayer1 = p /\ player1 = Undefined
         THEN player1' = p /\ player2' = player2
         ELSE IF preferredPlayer2 = p /\ player2 = Undefined
         THEN player2' = p /\ player1' = player1
         ELSE IF player1 = Undefined
         THEN player1' = p /\ player2' = player2
         ELSE player2' = p /\ player1' = player1]_vars

\* The prior game's second player has joined first and holds slot 2 again while
\* slot 1 is still empty.
C11_Witness ==
  /\ preferredPlayer2 = "p2"
  /\ player2 = "p2"
  /\ player1 = Undefined
  /\ result = OK
  /\ leaves = 0

\* C12: whenever both slots are occupied their occupants differ, and no player
\* occupies more than one slot.
C12_SlotsDistinct ==
  /\ (player1 # Undefined /\ player2 # Undefined) => player1 # player2
  /\ \A p \in Players : ~(player1 = p /\ player2 = p)

\* A player in a slot has tried to join again, next to a second occupant.
C12_Witness ==
  /\ player1 # Undefined
  /\ player2 # Undefined
  /\ result = PLAYER_ALREADY_IN_GAME_MESSAGE

\* C13: in every status, join(p) fails with PLAYER_ALREADY_IN_GAME when p is in
\* a slot, otherwise with GAME_FULL when both slots are occupied (a failed join
\* changes nothing), and otherwise succeeds; so no third player gets a slot.
C13_JoinErrors ==
  [][\A p \in Players :
       Join(p) =>
         IF player1 = p \/ player2 = p
         THEN result' = PLAYER_ALREADY_IN_GAME_MESSAGE /\ UNCHANGED state
         ELSE IF player1 # Undefined /\ player2 # Undefined
         THEN result' = GAME_FULL_MESSAGE /\ UNCHANGED state
         ELSE result' = OK]_vars

\* A third player was turned away from a game in progress.
C13_Witness ==
  /\ result = GAME_FULL_MESSAGE
  /\ status = "IN_PROGRESS"
  /\ player1 # Undefined
  /\ player2 # Undefined

\* C14: a join that succeeds while the status is WAITING_FOR_PLAYERS makes the
\* status WAITING_TO_START exactly when both slots are occupied after it, and
\* otherwise leaves it WAITING_FOR_PLAYERS.
C14_JoinAdvancesStatus ==
  [][\A p \in Players :
       (Join(p) /\ result' = OK /\ status = "WAITING_FOR_PLAYERS") =>
         status' = IF player1' # Undefined /\ player2' # Undefined
                   THEN "WAITING_TO_START"
                   ELSE "WAITING_FOR_PLAYERS"]_vars

\* The second player has just joined: nobody is ready, no difficulty is set.
C14_Witness ==
  /\ status = "WAITING_TO_START"
  /\ result = OK
  /\ player1Ready = Undefined
  /\ player2Ready = Undefined
  /\ difficulty = Undefined
  /\ leaves = 0

\* -------------------------------------------------------- starting (C15-C19)

\* C15: start(p) fails with GAME_NOT_STARTABLE whenever the status is not
\* WAITING_TO_START, whoever p is, and with PLAYER_NOT_IN_GAME when the status
\* is WAITING_TO_START and p is in neither slot.
C15_StartErrors ==
  [][\A p \in Players :
       StartGame(p) =>
         IF status # "WAITING_TO_START"
         THEN result' = GAME_NOT_STARTABLE_MESSAGE /\ UNCHANGED state
         ELSE IF player1 # p /\ player2 # p
         THEN result' = PLAYER_NOT_IN_GAME_MESSAGE /\ UNCHANGED state
         ELSE result' = OK]_vars

\* A player in neither slot has called start on a game waiting to start (no
\* leave call was made, so the error is startGame's).
C15_Witness ==
  /\ result = PLAYER_NOT_IN_GAME_MESSAGE
  /\ status = "WAITING_TO_START"
  /\ leaves = 0

\* C16: a start that succeeds sets the ready flag of the caller's slot, leaves
\* the other flag alone, and makes the status IN_PROGRESS exactly when both
\* flags are true after the call; otherwise the status stays WAITING_TO_START.
C16_StartSetsReady ==
  [][\A p \in Players :
       (StartGame(p) /\ result' = OK) =>
         /\ player1 = p => (player1Ready' = "true" /\ player2Ready' = player2Ready)
         /\ player2 = p => (player2Ready' = "true" /\ player1Ready' = player1Ready)
         /\ status' = IF player1Ready' = "true" /\ player2Ready' = "true"
                      THEN "IN_PROGRESS"
                      ELSE "WAITING_TO_START"]_vars

\* Slot 2 has reported ready and slot 1 has not: the game still waits to start.
C16_Witness ==
  /\ status = "WAITING_TO_START"
  /\ player2Ready = "true"
  /\ player1Ready = Undefined
  /\ result = OK
  /\ leaves = 0

\* C17: start(p) by a player whose ready flag is already true, while the status
\* is WAITING_TO_START, raises no error and changes no field of the state (here
\* only for a game whose secret word is a word of the difficulty now set, so
\* that no change of difficulty between the two calls is involved).
C17_StartIdempotent ==
  [][\A p \in Players :
       ( /\ StartGame(p)
         /\ status = "WAITING_TO_START"
         /\ \/ player1 = p /\ player1Ready = "true"
            \/ player2 = p /\ player2Ready = "true"
         /\ \E selectedCordle \in SelectableWords(difficulty) :
              cordle = toUpperCase(selectedCordle) ) =>
         (result' = OK /\ UNCHANGED state)]_vars

\* Both players of the prior game hold the slots they held in it, and the game
\* is in progress.
RematchInProgress ==
  /\ status = "IN_PROGRESS"
  /\ preferredPlayer1 = "p1"
  /\ preferredPlayer2 = "p2"
  /\ player1 = preferredPlayer1
  /\ player2 = preferredPlayer2

\* C18: game A had firstPlayer Player1 with p1 in slot 1 and p2 in slot 2, and
\* game B was constructed from A (RematchSpec); whenever B is in progress with
\* p1 and p2 in the slots they held in A, B's firstPlayer is Player2, the
\* opposite of A's.
C18_RematchAlternates == RematchInProgress => firstPlayer = "Player2"

\* C19: after a start that succeeds while neither slot is held by a player of
\* the prior game (there may be no prior game), firstPlayer is Player1.
C19_NewPairingStartsWithPlayer1 ==
  [][\A p \in Players :
       ( /\ StartGame(p)
         /\ result' = OK
         /\ {player1, player2} \cap {preferredPlayer1, preferredPlayer2} = {} ) =>
         firstPlayer' = "Player1"]_vars

\* A pairing with no player of the prior game (slot 1 of the prior game was
\* held by p1, its slot 2 by nobody) is in progress.
C19_Witness ==
  /\ preferredPlayer1 = "p1"
  /\ preferredPlayer2 = Undefined
  /\ status = "IN_PROGRESS"
  /\ {player1, player2} = {"p2", "p3"}
  /\ firstPlayer = "Player1"
  /\ guesses = <<>>

\* --------------------------------------------------------------- leaving (C20)

\* C20: leave(p) by a slot occupant while the status is IN_PROGRESS makes the
\* status OVER and the occupant of the other slot the winner; a leave while
\* the status is WAITING_FOR_PLAYERS or WAITING_TO_START leaves winner alone.
C20_LeaveSetsWinner ==
  [][\A p \in Players :
       Leave(p) =>
         /\ (status = "IN_PROGRESS" /\ player1 = p) =>
              (status' = "OVER" /\ winner' = player2)
         /\ (status = "IN_PROGRESS" /\ player2 = p) =>
              (status' = "OVER" /\ winner' = player1)
         /\ status \in {"WAITING_FOR_PLAYERS", "WAITING_TO_START"} =>
              winner' = winner]_vars

\* Slot 1 was vacated during a game in which no guess had been made: the game
\* is over and slot 2's occupant has won.
C20_Witness ==
  /\ status = "OVER"
  /\ player1 = Undefined
  /\ player2 # Undefined
  /\ winner = player2
  /\ guesses = <<>>

\* C21: in every status, OVER included, leave(p) by a player who is in neither
\* slot fails with PLAYER_NOT_IN_GAME.
C21_LeaveByStrangerFails ==
  [][\A p \in Players :
       (Leave(p) /\ leaves' = leaves + 1 /\ player1 # p /\ player2 # p) =>
         result' = PLAYER_NOT_IN_GAME_MESSAGE]_vars

\* C22: a leave that succeeds while the status is WAITING_FOR_PLAYERS or
\* WAITING_TO_START empties the caller's slot, makes that slot's ready flag
\* false, leaves the other slot and its ready flag alone, and ends in status
\* WAITING_FOR_PLAYERS.
C22_LeaveWhileWaiting ==
  [][\A p \in Players :
       ( /\ Leave(p)
         /\ leaves' = leaves + 1
         /\ result' = OK
         /\ status \in {"WAITING_FOR_PLAYERS", "WAITING_TO_START"} ) =>
         /\ status' = "WAITING_FOR_PLAYERS"
         /\ player1 = p =>
              /\ player1' = Undefined /\ player1Ready' = "false"
              /\ player2' = player2 /\ player2Ready' = player2Ready
         /\ player2 = p =>
              /\ player2' = Undefined /\ player2Ready' = "false"
              /\ player1' = player1 /\ player1Ready' = player1Ready]_vars

\* A ready player has left slot 1 of a game that was waiting to start; the
\* other player stays in slot 2.
C22_Witness ==
  /\ status = "WAITING_FOR_PLAYERS"
  /\ player1 = Undefined
  /\ player1Ready = "false"
  /\ player2 # Undefined
  /\ winner = Undefined
  /\ result = OK
  /\ leaves = 1

\* C23: winner is unset in every state whose status is not OVER.
C23_WinnerOnlyWhenOver == status # "OVER" => winner = Undefined

\* C24: a call that fails with an error leaves every field of the game state
\* as it was before the call.
C24_FailedCallChangesNothing ==
  [][result' # OK => UNCHANGED state]_vars

\* A guess out of turn was rejected in a game in progress.
C24_Witness ==
  /\ result = MOVE_NOT_YOUR_TURN_MESSAGE
  /\ status = "IN_PROGRESS"

\* C25: guessesEvaluated has a row at exactly the indices at which guesses has
\* a guess.
C25_RowsAlignWithGuesses == DOMAIN guessesEvaluated = 1..Len(guesses)

\* C26: the guess stored at index i - 1 of guesses has guessNumber i, also when
\* the clients number their guesses from copies of the game that lag behind.
C26_GuessNumbersInOrder ==
  \A i \in 1..Len(guesses) : guesses[i].guessNumber = i

\* C27: from a status other than OVER, a call changes the status only from
\* WAITING_FOR_PLAYERS to WAITING_TO_START (join), from WAITING_TO_START to
\* WAITING_FOR_PLAYERS (leave), from WAITING_TO_START to IN_PROGRESS (start) or
\* from IN_PROGRESS to OVER (applyMove or leave).
C27_StatusTransitions ==
  [][(status # "OVER" /\ status' # status) =>
       \/ /\ status = "WAITING_FOR_PLAYERS" /\ status' = "WAITING_TO_START"
          /\ \E p \in Players : Join(p)
       \/ /\ status = "WAITING_TO_START" /\ status' = "WAITING_FOR_PLAYERS"
          /\ \E p \in Players : Leave(p)
       \/ /\ status = "WAITING_TO_START" /\ status' = "IN_PROGRESS"
          /\ \E p \in Players : StartGame(p)
       \/ /\ status = "IN_PROGRESS" /\ status' = "OVER"
          /\ \/ \E p \in Players : Leave(p)
             \/ \E guess \in Moves(GuessWords) : ApplyMove(guess)]_vars

\* A game in progress was ended by its first guess.
C27_Witness ==
  /\ status = "OVER"
  /\ Len(guesses) = 1
  /\ winner = guesses[1].player
  /\ leaves = 0

\* C28: a start that succeeds stores a word drawn for the difficulty (upper
\* case) exactly when the caller holds the slot that firstPlayer names after
\* the call; a start by the occupant of the other slot leaves the word alone.
C28_FirstPlayerDrawsWord ==
  [][\A p \in Players :
       (StartGame(p) /\ result' = OK) =>
         IF \/ firstPlayer' = "Player1" /\ p = player1
            \/ firstPlayer' = "Player2" /\ p = player2
         THEN \E selectedCordle \in SelectableWords(difficulty) :
                cordle' = toUpperCase(selectedCordle)
         ELSE cordle' = cordle]_vars

\* No prior player is in the game: slot 1 is first player after the start call
\* of its occupant, who drew the Medium word, and slot 2 has not started yet.
C28_Witness ==
  /\ preferredPlayer1 = Undefined
  /\ preferredPlayer2 = Undefined
  /\ status = "WAITING_TO_START"
  /\ player1Ready = "true"
  /\ player2Ready = Undefined
  /\ firstPlayer = "Player1"
  /\ difficulty = "Medium"
  /\ cordle = <<"B", "A">>
  /\ leaves = 0

\* C29: game A had firstPlayer Player1 with p1 and p2 in its slots, and game B
\* was constructed from A (RematchSpec); after a start in B that succeeds while
\* p1 or p2 holds a slot (either slot), firstPlayer is Player2.
C29_PriorPlayerKeepsAlternation ==
  [][\A p \in Players :
       ( /\ StartGame(p)
         /\ result' = OK
         /\ {player1, player2} \cap {preferredPlayer1, preferredPlayer2} # {} ) =>
         firstPlayer' = "Player2"]_vars

\* C30: once the game has been in progress (it is in progress or over, or it
\* has a guess or a winner), no call changes firstPlayer.
C30_FirstPlayerFixed ==
  [][( \/ status \in {"IN_PROGRESS", "OVER"}
       \/ guesses # <<>>
       \/ winner # Undefined ) =>
       firstPlayer' = firstPlayer]_vars

\* C31: every row of guessesEvaluated is as long as the secret word, whatever
\* the length of the guess that was accepted.
C31_RowAsLongAsSecret ==
  \A n \in DOMAIN guessesEvaluated : Len(guessesEvaluated[n]) = Len(cordle)

\* C32: once a secret word has been drawn (cordle is neither undefined nor the
\* empty string stored when no difficulty was set), setDifficultyLevel no
\* longer changes the difficulty.
C32_DifficultyFixedOnceDrawn ==
  [][(cordle # NoWord /\ cordle # <<>>) => difficulty' = difficulty]_vars

C34_NoStartWithoutDifficulty ==
  status = "IN_PROGRESS" => difficulty # Undefined

\* C35: while the status is WAITING_TO_START or IN_PROGRESS both slots are
\* occupied; while it is IN_PROGRESS both ready flags are true; a ready flag is
\* true only if its slot is occupied.
C35_SlotsAndReadyFlags ==
  /\ status \in {"WAITING_TO_START", "IN_PROGRESS"} =>
       (player1 # Undefined /\ player2 # Undefined)
  /\ status = "IN_PROGRESS" => (player1Ready = "true" /\ player2Ready = "true")
  /\ player1Ready = "true" => player1 # Undefined
  /\ player2Ready = "true" => player2 # Undefined

\* A ready player has left a game in progress: the slot is empty, its flag is
\* false and the other player's flag is still true.
C35_Witness ==
  /\ status = "OVER"
  /\ player1 = Undefined
  /\ player1Ready = "false"
  /\ player2 # Undefined
  /\ player2Ready = "true"

\* C36: no two consecutive guesses were made by the same player.
C36_PlayersAlternate ==
  \A i \in 1..(Len(guesses) - 1) : guesses[i].player # guesses[i + 1].player

\* C37: a stored row is all Green exactly when its guess is the secret word.
C37_AllGreenIffSecret ==
  \A n \in Scored :
    AllGreen(guessesEvaluated[n]) <=> guesses[n].guessedWord = cordle

\* C38: in the start specification (neither flag set, then the two occupants'
\* start calls in either order) every call succeeds and settles firstPlayer on
\* a value that does not depend on the caller; the second call ends in
\* IN_PROGRESS with both flags true, keeps the firstPlayer of the first call,
\* and finds the secret word drawn by exactly one of the two calls.
C38_StartOrderIrrelevant ==
  [][\A p \in Players :
       StartGame(p) =>
         /\ result' = OK
         /\ firstPlayer' = IF preferredPlayer1 # player1 /\ preferredPlayer2 # player2
                           THEN "Player1"
                           ELSE firstPlayer
         /\ (player1Ready = "true" \/ player2Ready = "true") =>
              /\ status' = "IN_PROGRESS"
              /\ player1Ready' = "true"
              /\ player2Ready' = "true"
              /\ firstPlayer' = firstPlayer
              /\ cordle' # NoWord
              /\ cordle # NoWord => cordle' = cordle]_vars

\* Slot 2 moves first, and its occupant, who drew the word, was the second to
\* call start.
C38_Witness ==
  /\ status = "IN_PROGRESS"
  /\ firstPlayer = "Player2"
  /\ player1Ready = "true"
  /\ player2Ready = "true"
  /\ difficulty = "Hard"
  /\ cordle = <<"B", "A">>
  /\ guesses = <<>>

C40_BoardChangedWhenEitherDiffers ==
  [][UpdateFrom =>
       /\ boardChanged' <=>
            (NewBoard # board \/ NewGuessesEvaluated # boardEvaluated)
       /\ boardChanged' =>
            (board' = NewBoard /\ boardEvaluated' = NewGuessesEvaluated)]_vars


====
